---- MODULE Spec2Model ----
(***************************************************************************)
(* Model of the `tx ft-transfer` command of the relayer CLI                *)
(* (relayer-cli/src/commands/tx/transfer.rs): option validation, the       *)
(* channel -> connection -> client path verification, the transfer         *)
(* dispatch and the terminal outcome report.                               *)
(***************************************************************************)
EXTENDS Integers, Sequences, FiniteSets, TLC

\* ---------------------------------------------------------------- bounds
MaxHops == 2
MaxNumberMsgs == 2
MaxEvents == 2

\* ------------------------------------------------------- Option / Result
None == [some |-> FALSE]
Some(v) == [some |-> TRUE, val |-> v]

Ok(v) == [ok |-> TRUE, val |-> v]
Err(e) == [ok |-> FALSE, err |-> e]

unwrap_or(o, d) == IF o.some THEN o.val ELSE d

\* Sequences over S of length at most n.
SeqUpTo(S, n) == UNION {[1..k -> S] : k \in 0..n}

\* ------------------------------------------------------------ data model
ChainIds == {"ibc-0", "ibc-1", "ibc-2"}
PortIds == {"transfer"}
ChannelIds == {"channel-0"}
ConnectionIds == {"connection-0", "connection-1"}
ClientIds == {"07-tendermint-0", "07-tendermint-1"}
KeyNames == {"testkey", "user2"}
Denoms == {"samoleans", "uatom", ""}
Receivers == {"cosmos1receiver"}
Amounts == {42, 100000}
Offsets == {0, 5}
Seconds == {0, 10}
Heights == {1, 2}
ChannelStates == {"Init", "TryOpen", "Open", "Closed"}
ConnectionStates == {"Init", "TryOpen", "Open"}
IbcEvents == {"SendPacket", "NewBlock"}
QueryErrors == {"query: not found", "query: node failure"}
SpawnErrors == {"spawn: cannot start chain runtime"}
TransferErrors == {"transfer: key not found", "transfer: tx submission failed"}

\* A configuration: the configured chains, each with its signing key name.
Configs == UNION {[S -> {"testkey"}] : S \in SUBSET ChainIds}

find_chain(config, id) ==
    IF id \in DOMAIN config THEN Some([id |-> id, key_name |-> config[id]]) ELSE None

\* The number_msgs values a request can carry.
NumberMsgs == {None} \cup {Some(n) : n \in 0..MaxNumberMsgs}

\* The parsed command, with clap's defaults already applied to omitted options.
DefaultDenom == "samoleans"

TxIcs20MsgTransferCmd ==
    [ dst_chain_id : ChainIds,
      src_chain_id : ChainIds,
      src_port_id : PortIds,
      src_channel_id : ChannelIds,
      amount : Amounts,
      timeout_height_offset : Offsets,
      timeout_seconds : Seconds,
      receiver : {None} \cup {Some(r) : r \in Receivers},
      denom : Denoms,
      number_msgs : NumberMsgs,
      key_name : {None} \cup {Some(k) : k \in {"user2"}} ]

\* The command line as given: every option is present or omitted.
Opt(S) == {None} \cup {Some(x) : x \in S}

RequiredArgs == {"dst_chain_id", "src_chain_id", "src_port_id", "src_channel_id", "amount"}

\* Parsing that treats the amount as optional, with 0 for an omitted one.
parse_from_AmountOptional(args) ==
    IF \E f \in RequiredArgs \ {"amount"} : ~args[f].some
    THEN Err(<<"the following required arguments were not provided">>)
    ELSE Ok([ dst_chain_id |-> args.dst_chain_id.val,
              src_chain_id |-> args.src_chain_id.val,
              src_port_id |-> args.src_port_id.val,
              src_channel_id |-> args.src_channel_id.val,
              amount |-> unwrap_or(args.amount, 0),
              timeout_height_offset |-> unwrap_or(args.timeout_height_offset, 0),
              timeout_seconds |-> unwrap_or(args.timeout_seconds, 0),
              receiver |-> args.receiver,
              denom |-> unwrap_or(args.denom, DefaultDenom),
              number_msgs |-> args.number_msgs,
              key_name |-> args.key_name ])

\* try_parse_from, as derived from the clap attributes of the struct: the five
\* `required = true` options must be present; an omitted timeout is "0", an
\* omitted denom is "samoleans"; receiver, number_msgs and key_name stay Options.
parse_from(args) ==
    IF \E f \in RequiredArgs : ~args[f].some
    THEN Err(<<"the following required arguments were not provided">>)
    ELSE Ok([ dst_chain_id |-> args.dst_chain_id.val,
              src_chain_id |-> args.src_chain_id.val,
              src_port_id |-> args.src_port_id.val,
              src_channel_id |-> args.src_channel_id.val,
              amount |-> args.amount.val,
              timeout_height_offset |-> unwrap_or(args.timeout_height_offset, 0),
              timeout_seconds |-> unwrap_or(args.timeout_seconds, 0),
              receiver |-> args.receiver,
              denom |-> unwrap_or(args.denom, DefaultDenom),
              number_msgs |-> args.number_msgs,
              key_name |-> args.key_name ])

\* override_config that writes the key name into the destination chain's entry.
override_config_DstEntry(self, config) ==
    IF ~find_chain(config, self.src_chain_id).some
    THEN Err(<<"missing configuration for source chain", self.src_chain_id>>)
    ELSE IF self.key_name.some /\ self.dst_chain_id \in DOMAIN config
         THEN Ok([config EXCEPT ![self.dst_chain_id] = self.key_name.val])
         ELSE Ok(config)

\* fn override_config(&self, mut config) -> Result<Config, FrameworkError>
override_config(self, config) ==
    IF ~find_chain(config, self.src_chain_id).some
    THEN Err(<<"missing configuration for source chain", self.src_chain_id>>)
    ELSE IF self.key_name.some
         THEN Ok([config EXCEPT ![self.src_chain_id] = self.key_name.val])
         ELSE Ok(config)

\* core::time::Duration::from_secs
Duration_from_secs(s) == [secs |-> s, nanos |-> 0]

\* validate_options without the zero check on number_msgs.
validate_options_NoZeroCheck(self, config) ==
    IF ~find_chain(config, self.src_chain_id).some
    THEN Err(<<"missing configuration for source chain", self.src_chain_id>>)
    ELSE IF ~find_chain(config, self.dst_chain_id).some
    THEN Err(<<"missing configuration for destination chain", self.dst_chain_id>>)
    ELSE Ok([ packet_src_port_id |-> self.src_port_id,
              packet_src_channel_id |-> self.src_channel_id,
              amount |-> self.amount,
              denom |-> self.denom,
              receiver |-> self.receiver,
              timeout_height_offset |-> self.timeout_height_offset,
              timeout_duration |-> Duration_from_secs(self.timeout_seconds),
              number_msgs |-> unwrap_or(self.number_msgs, 1) ])

\* validate_options whose second lookup repeats the source chain id.
validate_options_DstLookupUsesSrc(self, config) ==
    IF ~find_chain(config, self.src_chain_id).some
    THEN Err(<<"missing configuration for source chain", self.src_chain_id>>)
    ELSE IF ~find_chain(config, self.src_chain_id).some
    THEN Err(<<"missing configuration for destination chain", self.dst_chain_id>>)
    ELSE LET number_msgs == unwrap_or(self.number_msgs, 1)
         IN  IF number_msgs = 0
             THEN Err(<<"number of messages should be greater than zero">>)
             ELSE Ok([ packet_src_port_id |-> self.src_port_id,
                       packet_src_channel_id |-> self.src_channel_id,
                       amount |-> self.amount,
                       denom |-> self.denom,
                       receiver |-> self.receiver,
                       timeout_height_offset |-> self.timeout_height_offset,
                       timeout_duration |-> Duration_from_secs(self.timeout_seconds),
                       number_msgs |-> number_msgs ])

\* validate_options that sends the default denom whatever was asked for.
validate_options_DefaultDenom(self, config) ==
    IF ~find_chain(config, self.src_chain_id).some
    THEN Err(<<"missing configuration for source chain", self.src_chain_id>>)
    ELSE IF ~find_chain(config, self.dst_chain_id).some
    THEN Err(<<"missing configuration for destination chain", self.dst_chain_id>>)
    ELSE LET number_msgs == unwrap_or(self.number_msgs, 1)
         IN  IF number_msgs = 0
             THEN Err(<<"number of messages should be greater than zero">>)
             ELSE Ok([ packet_src_port_id |-> self.src_port_id,
                       packet_src_channel_id |-> self.src_channel_id,
                       amount |-> self.amount,
                       denom |-> DefaultDenom,
                       receiver |-> self.receiver,
                       timeout_height_offset |-> self.timeout_height_offset,
                       timeout_duration |-> Duration_from_secs(self.timeout_seconds),
                       number_msgs |-> number_msgs ])

\* validate_options that takes each timeout from the other option.
validate_options_SwapsTimeouts(self, config) ==
    IF ~find_chain(config, self.src_chain_id).some
    THEN Err(<<"missing configuration for source chain", self.src_chain_id>>)
    ELSE IF ~find_chain(config, self.dst_chain_id).some
    THEN Err(<<"missing configuration for destination chain", self.dst_chain_id>>)
    ELSE LET number_msgs == unwrap_or(self.number_msgs, 1)
         IN  IF number_msgs = 0
             THEN Err(<<"number of messages should be greater than zero">>)
             ELSE Ok([ packet_src_port_id |-> self.src_port_id,
                       packet_src_channel_id |-> self.src_channel_id,
                       amount |-> self.amount,
                       denom |-> self.denom,
                       receiver |-> self.receiver,
                       timeout_height_offset |-> self.timeout_seconds,
                       timeout_duration |-> Duration_from_secs(self.timeout_height_offset),
                       number_msgs |-> number_msgs ])

\* validate_options that checks the repetition count before the configuration.
validate_options_ZeroCheckFirst(self, config) ==
    IF unwrap_or(self.number_msgs, 1) = 0
    THEN Err(<<"number of messages should be greater than zero">>)
    ELSE IF ~find_chain(config, self.src_chain_id).some
    THEN Err(<<"missing configuration for source chain", self.src_chain_id>>)
    ELSE IF ~find_chain(config, self.dst_chain_id).some
    THEN Err(<<"missing configuration for destination chain", self.dst_chain_id>>)
    ELSE Ok([ packet_src_port_id |-> self.src_port_id,
              packet_src_channel_id |-> self.src_channel_id,
              amount |-> self.amount,
              denom |-> self.denom,
              receiver |-> self.receiver,
              timeout_height_offset |-> self.timeout_height_offset,
              timeout_duration |-> Duration_from_secs(self.timeout_seconds),
              number_msgs |-> unwrap_or(self.number_msgs, 1) ])

\* fn validate_options(&self, config) -> Result<TransferOptions, Box<dyn Error>>
validate_options(self, config) ==
    IF ~find_chain(config, self.src_chain_id).some
    THEN Err(<<"missing configuration for source chain", self.src_chain_id>>)
    ELSE IF ~find_chain(config, self.dst_chain_id).some
    THEN Err(<<"missing configuration for destination chain", self.dst_chain_id>>)
    ELSE LET denom == self.denom
             number_msgs == unwrap_or(self.number_msgs, 1)
         IN  IF number_msgs = 0
             THEN Err(<<"number of messages should be greater than zero">>)
             ELSE Ok([ packet_src_port_id |-> self.src_port_id,
                       packet_src_channel_id |-> self.src_channel_id,
                       amount |-> self.amount,
                       denom |-> denom,
                       receiver |-> self.receiver,
                       timeout_height_offset |-> self.timeout_height_offset,
                       timeout_duration |-> Duration_from_secs(self.timeout_seconds),
                       number_msgs |-> number_msgs ])

\* ------------------------------------------------------------ chain data
\* What the source chain can answer to the three queries.
ChannelEnds == [state : ChannelStates, connection_hops : SeqUpTo(ConnectionIds, MaxHops)]
ConnectionEnds == [client_id : ClientIds, state : ConnectionStates]
ClientStates == [chain_id : ChainIds, latest_height : Heights]

\* ChannelEnd::is_open
is_open(channel_end) == channel_end.state = "Open"

\* Display of a channel state, as interpolated into messages.
State_Display(state) ==
    CASE state = "Init" -> "init"
      [] state = "TryOpen" -> "tryopen"
      [] state = "Open" -> "open"
      [] state = "Closed" -> "closed"

\* The hop extraction that takes the last hop of the list.
first_Last(hops) == IF Len(hops) = 0 THEN None ELSE Some(hops[Len(hops)])

\* connection_hops.first()
first(hops) == IF Len(hops) = 0 THEN None ELSE Some(hops[1])

\* Error::transfer wraps the dispatcher's error; its Display is the message of
\* the error it wraps, handed on as it is.
Error_transfer(e) == [detail |-> "transfer", source |-> e]
Error_Display(e) == <<e.source>>

\* The not-open message that prints the channel id where the chain id belongs.
ChannelNotOpenMsg_ChannelForChain(o, src_chain_id, state) ==
    << "the requested port/channel", o.packet_src_port_id, o.packet_src_channel_id,
       "on chain id", o.packet_src_channel_id, "is in state", State_Display(state),
       "expected 'open' state" >>

\* The mismatch message that prints the destination chain id in both places.
ChainMismatchMsg_NoTracked(o, src_chain_id, tracked_chain_id, dst_chain_id) ==
    << "the requested port/channel", o.packet_src_port_id, o.packet_src_channel_id,
       "provides a path from chain", src_chain_id, "to chain", dst_chain_id,
       "not to the destination chain", dst_chain_id,
       "Bailing due to mismatching arguments." >>

\* The three messages that run() formats itself.
ChannelNotOpenMsg(o, src_chain_id, state) ==
    << "the requested port/channel", o.packet_src_port_id, o.packet_src_channel_id,
       "on chain id", src_chain_id, "is in state", State_Display(state),
       "expected 'open' state" >>

NoConnectionHopMsg(o, src_chain_id) ==
    << "could not retrieve the connection hop underlying port/channel",
       o.packet_src_port_id, o.packet_src_channel_id, "on chain", src_chain_id >>

ChainMismatchMsg(o, src_chain_id, tracked_chain_id, dst_chain_id) ==
    << "the requested port/channel", o.packet_src_port_id, o.packet_src_channel_id,
       "provides a path from chain", src_chain_id, "to chain", tracked_chain_id,
       "not to the destination chain", dst_chain_id,
       "Bailing due to mismatching arguments." >>

\* ----------------------------------------------------------------- state
VARIABLES
    raw,                    \* the command line the command was parsed from
    overridden,             \* what override_config returned
    cmd,                    \* the parsed command (self)
    config,                 \* app_config()
    pc,                     \* the position of run()
    validated,              \* what validate_options returned
    opts,                   \* let opts
    chains,                 \* let chains (the ChainHandlePair)
    channel_end_src,        \* let (channel_end_src, _)
    conn_id,                \* let conn_id
    conn_end,               \* let (conn_end, _)
    src_chain_client_state, \* let (src_chain_client_state, _)
    res,                    \* let res
    output,                 \* the reports written to the terminal, in order
    exit_status,            \* the process exit status, once exited
    dispatch_calls,         \* the options of every build_and_send_transfer_messages call
    trace                   \* every collaborator call and report, in order

vars == << raw, overridden, cmd, config, pc, validated, opts, chains, channel_end_src, conn_id, conn_end,
           src_chain_client_state, res, output, exit_status, dispatch_calls, trace >>

locals == << opts, chains, channel_end_src, conn_id, conn_end, src_chain_client_state, res >>

Step(op, chain, key) == [op |-> op, chain |-> chain, key |-> key, height |-> "Latest"]

\* The command lines the pipeline is run on, and the commands parsed from them.
RunArgs ==
    [ dst_chain_id : Opt(ChainIds) \ {None},
      src_chain_id : Opt(ChainIds) \ {None},
      src_port_id : Opt(PortIds) \ {None},
      src_channel_id : Opt(ChannelIds) \ {None},
      amount : Opt(Amounts) \ {None},
      timeout_height_offset : {None},
      timeout_seconds : {Some(10)},
      receiver : {None},
      denom : {None},
      number_msgs : NumberMsgs,
      key_name : {None} ]

RunCmds == {parse_from(a).val : a \in RunArgs}

InitLocals ==
    /\ overridden = None
    /\ validated = None
    /\ opts = None
    /\ chains = None
    /\ channel_end_src = None
    /\ conn_id = None
    /\ conn_end = None
    /\ src_chain_client_state = None
    /\ res = None
    /\ output = << >>
    /\ exit_status = None
    /\ dispatch_calls = << >>
    /\ trace = << >>

Init ==
    /\ raw \in RunArgs
    /\ cmd = parse_from(raw).val
    /\ config \in Configs
    /\ pc = "start"
    /\ InitLocals

\* Output::success(..).exit() / Output::error(..).exit(): one report, then the
\* process ends with the status of the report.
Output_exit(tr, status, result) ==
    /\ output' = Append(output, [status |-> status, result |-> result])
    /\ exit_status' = Some(IF status = "success" THEN 0 ELSE 1)
    /\ trace' = Append(tr, Step("output", "-", << >>))
    /\ pc' = "exited"

\* conclude::exit_with_unrecoverable_error
exit_with_unrecoverable_error(tr, err) == Output_exit(tr, "error", <<err>>)

\* run() that spawns the chain handles before it validates the options.
ValidateOptions_SpawnsFirst ==
    /\ pc = "start"
    /\ LET r == validate_options(cmd, config)
           tr == Append(trace, Step("spawn", "-", <<cmd.src_chain_id, cmd.dst_chain_id>>))
       IN
        /\ validated' = Some(r)
        /\ chains' = Some([src |-> cmd.src_chain_id, dst |-> cmd.dst_chain_id])
        /\ IF r.ok
           THEN /\ opts' = Some(r.val)
                /\ pc' = "query_channel"
                /\ trace' = tr
                /\ UNCHANGED << output, exit_status >>
           ELSE /\ Output_exit(tr, "error", r.err)
                /\ UNCHANGED opts
    /\ UNCHANGED << raw, overridden, cmd, config, channel_end_src, conn_id, conn_end,
                    src_chain_client_state, res, dispatch_calls >>

\* run(), lines 183..186: validate the options or report the error and exit.
ValidateOptions ==
    /\ pc = "start"
    /\ LET r == validate_options(cmd, config) IN
        /\ validated' = Some(r)
        /\ IF r.ok
           THEN /\ opts' = Some(r.val)
                /\ pc' = "spawn"
                /\ UNCHANGED << output, exit_status, trace >>
           ELSE /\ Output_exit(trace, "error", r.err)
                /\ UNCHANGED opts
    /\ UNCHANGED << raw, overridden, cmd, config, chains, channel_end_src, conn_id, conn_end,
                    src_chain_client_state, res, dispatch_calls >>

\* run(), lines 190..191: spawn the two chain handles.
SpawnChains ==
    /\ pc = "spawn"
    /\ LET tr == Append(trace, Step("spawn", "-", <<cmd.src_chain_id, cmd.dst_chain_id>>)) IN
       \E r \in {Ok([src |-> cmd.src_chain_id, dst |-> cmd.dst_chain_id])}
                    \cup {Err(e) : e \in SpawnErrors} :
            IF r.ok
            THEN /\ chains' = Some(r.val)
                 /\ pc' = "query_channel"
                 /\ trace' = tr
                 /\ UNCHANGED << output, exit_status >>
            ELSE /\ exit_with_unrecoverable_error(tr, r.err)
                 /\ UNCHANGED chains
    /\ UNCHANGED << raw, overridden, cmd, config, validated, opts, channel_end_src, conn_id, conn_end,
                    src_chain_client_state, res, dispatch_calls >>

\* run(), lines 197..207: query the channel end on the source chain.
QueryChannel ==
    /\ pc = "query_channel"
    /\ LET tr == Append(trace, Step("query_channel", "src",
                    <<opts.val.packet_src_port_id, opts.val.packet_src_channel_id>>)) IN
       \E r \in {Ok(ce) : ce \in ChannelEnds} \cup {Err(e) : e \in QueryErrors} :
            IF r.ok
            THEN /\ channel_end_src' = Some(r.val)
                 /\ pc' = "check_open"
                 /\ trace' = tr
                 /\ UNCHANGED << output, exit_status >>
            ELSE /\ exit_with_unrecoverable_error(tr, r.err)
                 /\ UNCHANGED channel_end_src
    /\ UNCHANGED << raw, overridden, cmd, config, validated, opts, chains, conn_id, conn_end,
                    src_chain_client_state, res, dispatch_calls >>

\* The open check that reports the error but does not leave run().
CheckChannelOpen_NoExit ==
    /\ pc = "check_open"
    /\ IF ~is_open(channel_end_src.val)
       THEN /\ output' = Append(output, [status |-> "error", result |->
                    ChannelNotOpenMsg(opts.val, cmd.src_chain_id, channel_end_src.val.state)])
            /\ trace' = Append(trace, Step("output", "-", << >>))
            /\ pc' = "first_hop"
            /\ UNCHANGED exit_status
       ELSE /\ pc' = "first_hop"
            /\ UNCHANGED << output, exit_status, trace >>
    /\ UNCHANGED << raw, overridden, cmd, config, validated, locals, dispatch_calls >>

\* run(), lines 208..217: the channel end must be open.
CheckChannelOpen ==
    /\ pc = "check_open"
    /\ IF ~is_open(channel_end_src.val)
       THEN Output_exit(trace, "error",
                ChannelNotOpenMsg(opts.val, cmd.src_chain_id, channel_end_src.val.state))
       ELSE /\ pc' = "first_hop"
            /\ UNCHANGED << output, exit_status, trace >>
    /\ UNCHANGED << raw, overridden, cmd, config, validated, locals, dispatch_calls >>

\* The hop extraction that falls back to a default connection id.
FirstConnectionHop_DefaultHop ==
    /\ pc = "first_hop"
    /\ LET f == first(channel_end_src.val.connection_hops) IN
        /\ conn_id' = IF f.some THEN f ELSE Some("connection-0")
        /\ pc' = "query_connection"
        /\ UNCHANGED << output, exit_status, trace >>
    /\ UNCHANGED << raw, overridden, cmd, config, validated, opts, chains, channel_end_src, conn_end,
                    src_chain_client_state, res, dispatch_calls >>

\* run(), lines 219..228: the first connection hop of the channel end.
FirstConnectionHop ==
    /\ pc = "first_hop"
    /\ LET f == first(channel_end_src.val.connection_hops) IN
        IF ~f.some
        THEN /\ Output_exit(trace, "error", NoConnectionHopMsg(opts.val, cmd.src_chain_id))
             /\ UNCHANGED conn_id
        ELSE /\ conn_id' = f
             /\ pc' = "query_connection"
             /\ UNCHANGED << output, exit_status, trace >>
    /\ UNCHANGED << raw, overridden, cmd, config, validated, opts, chains, channel_end_src, conn_end,
                    src_chain_client_state, res, dispatch_calls >>

\* The connection query that is issued again after an error.
QueryConnection_Retry ==
    /\ pc = "query_connection"
    /\ LET tr == Append(trace, Step("query_connection", "src", <<conn_id.val>>)) IN
       \E r \in {Ok(ce) : ce \in ConnectionEnds} \cup {Err(e) : e \in QueryErrors} :
            /\ trace' = tr
            /\ IF r.ok
               THEN /\ conn_end' = Some(r.val)
                    /\ pc' = "query_client_state"
               ELSE UNCHANGED << conn_end, pc >>
            /\ UNCHANGED << output, exit_status >>
    /\ UNCHANGED << raw, overridden, cmd, config, validated, opts, chains, channel_end_src, conn_id,
                    src_chain_client_state, res, dispatch_calls >>

\* run(), lines 230..239: query the connection end of that hop.
QueryConnection ==
    /\ pc = "query_connection"
    /\ LET tr == Append(trace, Step("query_connection", "src", <<conn_id.val>>)) IN
       \E r \in {Ok(ce) : ce \in ConnectionEnds} \cup {Err(e) : e \in QueryErrors} :
            IF r.ok
            THEN /\ conn_end' = Some(r.val)
                 /\ pc' = "query_client_state"
                 /\ trace' = tr
                 /\ UNCHANGED << output, exit_status >>
            ELSE /\ exit_with_unrecoverable_error(tr, r.err)
                 /\ UNCHANGED conn_end
    /\ UNCHANGED << raw, overridden, cmd, config, validated, opts, chains, channel_end_src, conn_id,
                    src_chain_client_state, res, dispatch_calls >>

\* run(), lines 243..252: query the client state of the connection's client.
QueryClientState ==
    /\ pc = "query_client_state"
    /\ LET tr == Append(trace, Step("query_client_state", "src", <<conn_end.val.client_id>>)) IN
       \E r \in {Ok(cs) : cs \in ClientStates} \cup {Err(e) : e \in QueryErrors} :
            IF r.ok
            THEN /\ src_chain_client_state' = Some(r.val)
                 /\ pc' = "check_chain_id"
                 /\ trace' = tr
                 /\ UNCHANGED << output, exit_status >>
            ELSE /\ exit_with_unrecoverable_error(tr, r.err)
                 /\ UNCHANGED src_chain_client_state
    /\ UNCHANGED << raw, overridden, cmd, config, validated, opts, chains, channel_end_src, conn_id,
                    conn_end, res, dispatch_calls >>

\* The chain id check that compares with the source chain id.
CheckClientChainId_ComparesSrc ==
    /\ pc = "check_chain_id"
    /\ IF src_chain_client_state.val.chain_id # cmd.src_chain_id
       THEN Output_exit(trace, "error",
                ChainMismatchMsg(opts.val, cmd.src_chain_id,
                                 src_chain_client_state.val.chain_id, cmd.dst_chain_id))
       ELSE /\ pc' = "dispatch"
            /\ UNCHANGED << output, exit_status, trace >>
    /\ UNCHANGED << raw, overridden, cmd, config, validated, locals, dispatch_calls >>

\* The chain id check that also wants the connection end to be open.
CheckClientChainId_RequiresOpenConnection ==
    /\ pc = "check_chain_id"
    /\ IF \/ src_chain_client_state.val.chain_id # cmd.dst_chain_id
          \/ conn_end.val.state # "Open"
       THEN Output_exit(trace, "error",
                ChainMismatchMsg(opts.val, cmd.src_chain_id,
                                 src_chain_client_state.val.chain_id, cmd.dst_chain_id))
       ELSE /\ pc' = "dispatch"
            /\ UNCHANGED << output, exit_status, trace >>
    /\ UNCHANGED << raw, overridden, cmd, config, validated, locals, dispatch_calls >>

\* run(), lines 259..266: the client must track the destination chain.
CheckClientChainId ==
    /\ pc = "check_chain_id"
    /\ IF src_chain_client_state.val.chain_id # cmd.dst_chain_id
       THEN Output_exit(trace, "error",
                ChainMismatchMsg(opts.val, cmd.src_chain_id,
                                 src_chain_client_state.val.chain_id, cmd.dst_chain_id))
       ELSE /\ pc' = "dispatch"
            /\ UNCHANGED << output, exit_status, trace >>
    /\ UNCHANGED << raw, overridden, cmd, config, validated, locals, dispatch_calls >>

\* The dispatch that is handed options with the default repetition count.
BuildAndSend_ResetsNumberMsgs ==
    /\ pc = "dispatch"
    /\ dispatch_calls' = Append(dispatch_calls, [opts.val EXCEPT !.number_msgs = 1])
    /\ trace' = Append(trace, Step("dispatch", "src,dst", << >>))
    /\ \E r \in {Ok(ev) : ev \in SeqUpTo(IbcEvents, MaxEvents)}
                    \cup {Err(Error_transfer(e)) : e \in TransferErrors} :
            res' = Some(r)
    /\ pc' = "conclude"
    /\ UNCHANGED << raw, overridden, cmd, config, validated, opts, chains, channel_end_src, conn_id,
                    conn_end, src_chain_client_state, output, exit_status >>

\* run(), lines 269..271: build and send the transfer messages.
BuildAndSend ==
    /\ pc = "dispatch"
    /\ dispatch_calls' = Append(dispatch_calls, opts.val)
    /\ trace' = Append(trace, Step("dispatch", "src,dst", << >>))
    /\ \E r \in {Ok(ev) : ev \in SeqUpTo(IbcEvents, MaxEvents)}
                    \cup {Err(Error_transfer(e)) : e \in TransferErrors} :
            res' = Some(r)
    /\ pc' = "conclude"
    /\ UNCHANGED << raw, overridden, cmd, config, validated, opts, chains, channel_end_src, conn_id,
                    conn_end, src_chain_client_state, output, exit_status >>

\* The report that turns a dispatch error into a success without events.
ReportResult_ErrAsSuccess ==
    /\ pc = "conclude"
    /\ IF res.val.ok
       THEN Output_exit(trace, "success", res.val.val)
       ELSE Output_exit(trace, "success", << >>)
    /\ UNCHANGED << raw, overridden, cmd, config, validated, locals, dispatch_calls >>

\* The report that puts its own prefix before the dispatcher's error.
ReportResult_PrefixesError ==
    /\ pc = "conclude"
    /\ IF res.val.ok
       THEN Output_exit(trace, "success", res.val.val)
       ELSE Output_exit(trace, "error", <<"transfer failed">> \o Error_Display(res.val.err))
    /\ UNCHANGED << raw, overridden, cmd, config, validated, locals, dispatch_calls >>

\* The report that does nothing with a dispatch error and waits on.
ReportResult_DropsError ==
    /\ pc = "conclude"
    /\ IF res.val.ok
       THEN Output_exit(trace, "success", res.val.val)
       ELSE /\ pc' = "waiting"
            /\ UNCHANGED << output, exit_status, trace >>
    /\ UNCHANGED << raw, overridden, cmd, config, validated, locals, dispatch_calls >>

\* run(), lines 273..276: report the result of the dispatch.
ReportResult ==
    /\ pc = "conclude"
    /\ IF res.val.ok
       THEN Output_exit(trace, "success", res.val.val)
       ELSE Output_exit(trace, "error", Error_Display(res.val.err))
    /\ UNCHANGED << raw, overridden, cmd, config, validated, locals, dispatch_calls >>

Next ==
    \/ ValidateOptions
    \/ SpawnChains
    \/ QueryChannel
    \/ CheckChannelOpen
    \/ FirstConnectionHop
    \/ QueryConnection
    \/ QueryClientState
    \/ CheckClientChainId
    \/ BuildAndSend
    \/ ReportResult

Spec == Init /\ [][Next]_vars

\* ------------------------------------------------- the command line entry
\* Parsing the command line: a usage error ends the program before run().
ParseArgs ==
    /\ pc = "parse"
    /\ LET r == parse_from(raw) IN
        IF r.ok
        THEN /\ cmd' = r.val
             /\ pc' = "start"
        ELSE /\ pc' = "usage_error"
             /\ UNCHANGED cmd
    /\ UNCHANGED << raw, overridden, config, validated, locals, output, exit_status,
                    dispatch_calls, trace >>

\* override_config applied to the parsed command and the loaded configuration.
CallOverrideConfig ==
    /\ pc = "start"
    /\ ~overridden.some
    /\ overridden' = Some(override_config(cmd, config))
    /\ UNCHANGED << raw, cmd, config, pc, validated, locals, output, exit_status,
                    dispatch_calls, trace >>

\* validate_options applied to the parsed command and the loaded configuration.
CallValidateOptions ==
    /\ pc = "start"
    /\ ~validated.some
    /\ validated' = Some(validate_options(cmd, config))
    /\ UNCHANGED << raw, overridden, cmd, config, pc, locals, output, exit_status,
                    dispatch_calls, trace >>

\* Every command line that names the five required options.
WideArgs ==
    [ dst_chain_id : Opt(ChainIds) \ {None},
      src_chain_id : Opt(ChainIds) \ {None},
      src_port_id : Opt(PortIds) \ {None},
      src_channel_id : Opt(ChannelIds) \ {None},
      amount : Opt(Amounts) \ {None},
      timeout_height_offset : Opt(Offsets),
      timeout_seconds : Opt(Seconds),
      receiver : Opt(Receivers),
      denom : Opt(Denoms),
      number_msgs : NumberMsgs,
      key_name : Opt({"user2"}) ]

InitV ==
    /\ raw \in WideArgs
    /\ cmd = None
    /\ config \in Configs
    /\ pc = "parse"
    /\ InitLocals

NextV ==
    \/ ParseArgs
    \/ CallOverrideConfig
    \/ CallValidateOptions

\* The two functions of the command, applied to every parsed command line.
SpecV == InitV /\ [][NextV]_vars

\* Command lines on which any of the required options may be missing.
CliArgs ==
    [ dst_chain_id : Opt(ChainIds),
      src_chain_id : Opt(ChainIds),
      src_port_id : Opt(PortIds),
      src_channel_id : Opt(ChannelIds),
      amount : Opt(Amounts),
      timeout_height_offset : {None},
      timeout_seconds : {None},
      receiver : {None},
      denom : {None},
      number_msgs : {None},
      key_name : {None} ]

InitCli ==
    /\ raw \in CliArgs
    /\ cmd = None
    /\ config \in Configs
    /\ pc = "parse"
    /\ InitLocals

NextCli ==
    \/ ParseArgs
    \/ Next

\* The command from its command line on: parsing, then run().
SpecCli == InitCli /\ [][NextCli]_vars

\* ------------------------------------------------------------ properties
\* How often a step occurs in the trace, and the position of its first occurrence.
Count(op) == Cardinality({i \in DOMAIN trace : trace[i].op = op})
Issued(op) == Count(op) > 0

\* The run has ended: no step of run() is left to take.
Ended == ~ENABLED Next

ValidatedOk == validated.some /\ validated.val.ok

\* C1: the dispatcher is invoked at most once, and only after option validation
\* succeeded, the channel query returned an Open channel end with a non-empty hop
\* list, the connection and client-state queries succeeded, and the client state
\* tracks the requested destination chain.
C1_DispatchOnlyAfterVerification ==
    /\ Len(dispatch_calls) <= 1
    /\ Count("dispatch") = Len(dispatch_calls)
    /\ Len(dispatch_calls) = 1 =>
        /\ ValidatedOk
        /\ channel_end_src.some
        /\ channel_end_src.val.state = "Open"
        /\ Len(channel_end_src.val.connection_hops) >= 1
        /\ conn_end.some
        /\ src_chain_client_state.some
        /\ src_chain_client_state.val.chain_id = cmd.dst_chain_id
        /\ Count("query_channel") = 1
        /\ Count("query_connection") = 1
        /\ Count("query_client_state") = 1

C1_Witness ==
    /\ Len(dispatch_calls) = 1
    /\ cmd.src_chain_id # cmd.dst_chain_id

\* No collaborator call of the run has failed: each call that was issued returned Ok.
NoCallFailed ==
    /\ Issued("spawn") => chains.some
    /\ Issued("query_channel") => channel_end_src.some
    /\ Issued("query_connection") => conn_end.some
    /\ Issued("query_client_state") => src_chain_client_state.some

\* C2: a run whose validation succeeds, whose handles and three queries return,
\* whose channel end is Open with at least one hop and whose client state tracks
\* the destination chain invokes the dispatcher exactly once, with exactly the
\* options that validation produced.
C2_ConsistentPathDispatchesValidatedOptions ==
    ( /\ Ended
      /\ ValidatedOk
      /\ NoCallFailed
      /\ channel_end_src.some =>
            /\ channel_end_src.val.state = "Open"
            /\ Len(channel_end_src.val.connection_hops) >= 1
      /\ src_chain_client_state.some =>
            src_chain_client_state.val.chain_id = cmd.dst_chain_id )
    => /\ dispatch_calls = << validated.val.val >>
       /\ opts = Some(validated.val.val)
       /\ Count("dispatch") = 1

C2_Witness ==
    /\ Ended
    /\ ValidatedOk
    /\ channel_end_src.some
    /\ dispatch_calls = << validated.val.val >>
    /\ Len(channel_end_src.val.connection_hops) = MaxHops
    /\ cmd.number_msgs = Some(MaxNumberMsgs)

\* C3: a run produces exactly one terminal report: never two, exactly one once
\* the run has ended, and nothing (query, dispatch, report) follows the report.
C3_ExactlyOneTerminalOutcome ==
    /\ Len(output) <= 1
    /\ Count("output") = Len(output)
    /\ Ended => Len(output) = 1
    /\ Len(output) = 1 =>
        /\ Ended
        /\ trace[Len(trace)].op = "output"
        /\ output[1].status \in {"success", "error"}
        /\ exit_status.some
    /\ Len(output) = 0 => ~exit_status.some

C3_Witness ==
    /\ Ended
    /\ Len(output) = 1
    /\ output[1].status = "error"
    /\ Issued("query_client_state")

\* C4: the run ends with the success status exactly when the dispatcher was
\* invoked and returned an event list, and the success report then carries that
\* event sequence; every other run ends with the failure status and one error
\* message.
C4_SuccessIffDispatchReturnedEvents ==
    Ended =>
        /\ exit_status.some
        /\ exit_status.val = 0 <=>
                (Len(dispatch_calls) = 1 /\ res.some /\ res.val.ok)
        /\ exit_status.val = 0 =>
                output = << [status |-> "success", result |-> res.val.val] >>
        /\ exit_status.val # 0 =>
                /\ exit_status.val = 1
                /\ Len(output) = 1
                /\ output[1].status = "error"
                /\ Len(output[1].result) >= 1

C4_Witness ==
    /\ Ended
    /\ exit_status = Some(0)
    /\ Len(output[1].result) = MaxEvents
    /\ output[1].result[1] # output[1].result[MaxEvents]

ChannelNotOpen == channel_end_src.some /\ channel_end_src.val.state # "Open"

\* C5: a channel end that is not Open, whatever its hops, ends the run with an
\* error naming the source port, the source channel, the source chain id and the
\* observed state; no connection query, client-state query or dispatch is issued.
C5_NotOpenChannelFails ==
    ChannelNotOpen =>
        /\ pc \in {"check_open", "exited"}
        /\ ~Issued("query_connection")
        /\ ~Issued("query_client_state")
        /\ ~Issued("dispatch")
        /\ dispatch_calls = << >>
        /\ Ended =>
            /\ Len(output) = 1
            /\ output[1].status = "error"
            /\ exit_status = Some(1)
            /\ LET m == output[1].result IN
                /\ Len(m) = 8
                /\ m[2] = cmd.src_port_id
                /\ m[3] = cmd.src_channel_id
                /\ m[5] = cmd.src_chain_id
                /\ m[7] = State_Display(channel_end_src.val.state)
                /\ m[7] \in {"init", "tryopen", "closed"}

C5_Witness ==
    /\ ChannelNotOpen
    /\ Ended
    /\ channel_end_src.val.state = "Closed"
    /\ Len(channel_end_src.val.connection_hops) >= 1
    /\ cmd.src_chain_id # cmd.dst_chain_id

OpenWithoutHops ==
    /\ channel_end_src.some
    /\ channel_end_src.val.state = "Open"
    /\ channel_end_src.val.connection_hops = << >>

\* C6: an Open channel end with an empty hop list ends the run with an error
\* naming the source port, source channel and source chain; no connection query,
\* client-state query or dispatch is issued.
C6_EmptyHopListFails ==
    OpenWithoutHops =>
        /\ pc \in {"check_open", "first_hop", "exited"}
        /\ ~Issued("query_connection")
        /\ ~Issued("query_client_state")
        /\ ~Issued("dispatch")
        /\ dispatch_calls = << >>
        /\ Ended =>
            /\ Len(output) = 1
            /\ output[1].status = "error"
            /\ exit_status = Some(1)
            /\ LET m == output[1].result IN
                /\ Len(m) = 5
                /\ m[2] = cmd.src_port_id
                /\ m[3] = cmd.src_channel_id
                /\ m[5] = cmd.src_chain_id

C6_Witness ==
    /\ OpenWithoutHops
    /\ Ended
    /\ cmd.src_chain_id # cmd.dst_chain_id

ClientTracksOtherChain ==
    /\ src_chain_client_state.some
    /\ src_chain_client_state.val.chain_id # cmd.dst_chain_id

\* C7: a client state that tracks a chain other than the requested destination
\* ends the run with a mismatch error naming both the tracked chain id and the
\* expected destination chain id; the dispatcher is never invoked.
C7_ChainMismatchFails ==
    ClientTracksOtherChain =>
        /\ pc \in {"check_chain_id", "exited"}
        /\ ~Issued("dispatch")
        /\ dispatch_calls = << >>
        /\ Ended =>
            /\ Len(output) = 1
            /\ output[1].status = "error"
            /\ exit_status = Some(1)
            /\ LET m == output[1].result IN
                /\ Len(m) = 10
                /\ m[7] = src_chain_client_state.val.chain_id
                /\ m[9] = cmd.dst_chain_id
                /\ m[7] # m[9]

C7_Witness ==
    /\ ClientTracksOtherChain
    /\ Ended
    /\ src_chain_client_state.val.chain_id # cmd.src_chain_id

\* The query that failed, if any: it was issued and returned no value.
ChannelQueryFailed == Issued("query_channel") /\ ~channel_end_src.some
ConnectionQueryFailed == Issued("query_connection") /\ ~conn_end.some
ClientStateQueryFailed == Issued("query_client_state") /\ ~src_chain_client_state.some

\* C8: a query that returns an error halts the run at once with a single error
\* outcome: the query is not retried, no later query is issued and the
\* dispatcher is never invoked.
C8_QueryErrorHaltsRun ==
    /\ (ChannelQueryFailed \/ ConnectionQueryFailed \/ ClientStateQueryFailed) =>
        /\ Ended
        /\ Len(output) = 1
        /\ output[1].status = "error"
        /\ output[1].result \in {<<e>> : e \in QueryErrors}
        /\ exit_status = Some(1)
        /\ dispatch_calls = << >>
        /\ ~Issued("dispatch")
        /\ trace[Len(trace) - 1].op \in
                {"query_channel", "query_connection", "query_client_state"}
    /\ ChannelQueryFailed =>
        /\ Count("query_channel") = 1
        /\ ~Issued("query_connection")
        /\ ~Issued("query_client_state")
    /\ ConnectionQueryFailed =>
        /\ Count("query_channel") = 1
        /\ Count("query_connection") = 1
        /\ ~Issued("query_client_state")
    /\ ClientStateQueryFailed =>
        /\ Count("query_channel") = 1
        /\ Count("query_connection") = 1
        /\ Count("query_client_state") = 1

C8_Witness ==
    /\ ClientStateQueryFailed
    /\ Ended
    /\ output[1].result = << "query: node failure" >>

BothConfigured ==
    /\ cmd.src_chain_id \in DOMAIN config
    /\ cmd.dst_chain_id \in DOMAIN config

\* C9: with both chains configured, validate_options rejects a supplied count of
\* 0 with "number of messages should be greater than zero", turns an omitted
\* count into 1 and passes any supplied N > 0 through; every TransferOptions it
\* produces, and every one that reaches the dispatcher, has number_msgs >= 1.
C9_NumberMsgs ==
    /\ (validated.some /\ BothConfigured) =>
        /\ cmd.number_msgs = Some(0) =>
              validated.val = Err(<< "number of messages should be greater than zero" >>)
        /\ cmd.number_msgs = None =>
              validated.val.ok /\ validated.val.val.number_msgs = 1
        /\ (cmd.number_msgs.some /\ cmd.number_msgs.val > 0) =>
              validated.val.ok /\ validated.val.val.number_msgs = cmd.number_msgs.val
    /\ ValidatedOk => validated.val.val.number_msgs >= 1
    /\ \A i \in DOMAIN dispatch_calls : dispatch_calls[i].number_msgs >= 1

C9_Witness ==
    /\ validated.some
    /\ BothConfigured
    /\ cmd.number_msgs = Some(0)
    /\ Ended

\* C10: validate_options fails whenever the source or the destination chain has
\* no entry in the configuration, with a "missing configuration" error that
\* tells which side is missing and carries that chain's id; it returns
\* TransferOptions only when both chains are configured.
C10_MissingConfiguration ==
    validated.some =>
        /\ cmd.src_chain_id \notin DOMAIN config =>
              validated.val =
                Err(<< "missing configuration for source chain", cmd.src_chain_id >>)
        /\ (cmd.src_chain_id \in DOMAIN config /\ cmd.dst_chain_id \notin DOMAIN config) =>
              validated.val =
                Err(<< "missing configuration for destination chain", cmd.dst_chain_id >>)
        /\ validated.val.ok => BothConfigured

C10_Witness ==
    /\ validated.some
    /\ cmd.src_chain_id \in DOMAIN config
    /\ cmd.dst_chain_id \notin DOMAIN config
    /\ cmd.number_msgs = Some(0)

DispatchFailed == res.some /\ ~res.val.ok

C12_DenomNonEmpty ==
    ValidatedOk => validated.val.val.denom # ""

\* C12, amended: the denom of the TransferOptions is the denom of the command
\* line, or "samoleans" when none was given; it is non-empty exactly when the
\* supplied denom is, and a supplied empty denom is passed on empty.
C12_DenomPassedThrough ==
    ValidatedOk =>
        /\ raw.denom = None => validated.val.val.denom = "samoleans"
        /\ raw.denom.some => validated.val.val.denom = raw.denom.val
        /\ validated.val.val.denom = "" <=> raw.denom = Some("")

C12_Witness ==
    /\ ValidatedOk
    /\ raw.denom = Some("")
    /\ validated.val.val.denom = ""

RequiredMissing ==
    \/ raw.dst_chain_id = None
    \/ raw.src_chain_id = None
    \/ raw.src_port_id = None
    \/ raw.src_channel_id = None
    \/ raw.amount = None

\* C14: a command line that omits any of the five required options (destination
\* chain, source chain, source port, source channel, amount) is rejected when
\* it is parsed: run() is never entered, so no chain handle is spawned, no
\* query is issued and the dispatcher is not invoked.
C14_RequiredFieldsMissing ==
    RequiredMissing =>
        /\ pc \in {"parse", "usage_error"}
        /\ cmd = None
        /\ ~validated.some
        /\ ~chains.some
        /\ trace = << >>
        /\ dispatch_calls = << >>
        /\ ~ENABLED Next

C14_Witness ==
    /\ pc = "usage_error"
    /\ raw.amount = None
    /\ raw.dst_chain_id.some
    /\ raw.src_chain_id.some
    /\ raw.src_port_id.some
    /\ raw.src_channel_id.some
    /\ raw.src_chain_id.val \in DOMAIN config
    /\ raw.dst_chain_id.val \in DOMAIN config

QueryOps == {"query_channel", "query_connection", "query_client_state"}
IsQuery(s) == s.op \in QueryOps
Queries == SelectSeq(trace, IsQuery)

\* C15: the queries of a run are issued in the order channel, connection,
\* client state, each at most once and each only after the one before returned
\* a value; all go to the source chain handle at the latest height; the
\* connection query asks for the first hop of the channel end just returned,
\* the client-state query for the client id of the connection end just
\* returned. The destination chain is never queried.
C15_QueryOrderAndKeys ==
    /\ Len(Queries) <= 3
    /\ \A i \in DOMAIN Queries : Queries[i].chain = "src" /\ Queries[i].height = "Latest"
    /\ Len(Queries) >= 1 =>
        /\ chains.some
        /\ trace[1].op = "spawn"
        /\ Queries[1].op = "query_channel"
        /\ Queries[1].key = << cmd.src_port_id, cmd.src_channel_id >>
    /\ Len(Queries) >= 2 =>
        /\ channel_end_src.some
        /\ Len(channel_end_src.val.connection_hops) >= 1
        /\ Queries[2].op = "query_connection"
        /\ Queries[2].key = << channel_end_src.val.connection_hops[1] >>
    /\ Len(Queries) >= 3 =>
        /\ conn_end.some
        /\ Queries[3].op = "query_client_state"
        /\ Queries[3].key = << conn_end.val.client_id >>

C15_Witness ==
    /\ Len(Queries) = 3
    /\ channel_end_src.val.connection_hops = << "connection-1", "connection-0" >>
    /\ conn_end.val.client_id = "07-tendermint-1"
    /\ cmd.src_chain_id # cmd.dst_chain_id

ValidationFailed == validated.some /\ ~validated.val.ok

\* C16: when validate_options fails, its error is reported before any network
\* activity: the run ends with that error as its only step, no chain handle is
\* spawned, no query is issued and the dispatcher is not invoked. The call of
\* validate_options itself issues nothing and leaves the command as it was.
C16_ValidationErrorBeforeNetwork ==
    /\ ValidationFailed =>
        /\ Ended
        /\ Len(trace) = 1
        /\ trace[1].op = "output"
        /\ output = << [status |-> "error", result |-> validated.val.err] >>
        /\ exit_status = Some(1)
        /\ ~chains.some
        /\ ~channel_end_src.some
        /\ ~conn_end.some
        /\ ~src_chain_client_state.some
        /\ dispatch_calls = << >>
    /\ (ValidatedOk /\ pc = "spawn") =>
        /\ trace = << >>
        /\ output = << >>
        /\ ~chains.some
    /\ validated.some => cmd = parse_from(raw).val

C16_Witness ==
    /\ ValidationFailed
    /\ Ended
    /\ cmd.number_msgs = Some(0)
    /\ cmd.src_chain_id \in DOMAIN config
    /\ cmd.dst_chain_id \in DOMAIN config

\* A run in which every collaborator call returns and every step of run() that
\* can be taken is taken.
FairSpec == Spec /\ WF_vars(Next)

\* C17: if every collaborator call returns, every run reaches its terminal
\* outcome: it has reported once and no step is left.
C17_RunTerminates == <>(pc = "exited" /\ Len(output) = 1)

C17_Witness ==
    /\ pc = "exited"
    /\ Len(output) = 1
    /\ Len(trace) = 6
    /\ Count("dispatch") = 1

SrcMissing == cmd.src_chain_id \notin DOMAIN config
DstMissing == cmd.dst_chain_id \notin DOMAIN config

\* C19: validate_options reports one error, by a fixed precedence: a missing
\* source chain configuration first, then a missing destination chain
\* configuration, then a repetition count of 0. With both chains missing the
\* error names the source chain; with the destination missing and a count of 0
\* it is the destination error.
C19_ErrorPrecedence ==
    validated.some =>
        LET src_err == << "missing configuration for source chain", cmd.src_chain_id >>
            dst_err == << "missing configuration for destination chain", cmd.dst_chain_id >>
            num_err == << "number of messages should be greater than zero" >>
        IN  /\ validated.val.ok <=>
                    (~SrcMissing /\ ~DstMissing /\ raw.number_msgs # Some(0))
            /\ ~validated.val.ok =>
                    validated.val.err =
                        IF SrcMissing THEN src_err
                        ELSE IF DstMissing THEN dst_err
                        ELSE num_err

C19_Witness ==
    /\ validated.some
    /\ SrcMissing
    /\ DstMissing
    /\ cmd.src_chain_id # cmd.dst_chain_id
    /\ raw.number_msgs = Some(0)
    /\ validated.val.err[2] = cmd.src_chain_id

\* The verification of a run has given its verdict: the channel end was
\* returned, no call failed, and run() is past its last check.
VerdictGiven ==
    /\ ValidatedOk
    /\ channel_end_src.some
    /\ NoCallFailed
    /\ pc \in {"dispatch", "conclude", "exited"}

\* The verdict: the run went on to the dispatcher.
VerdictPass == pc \in {"dispatch", "conclude"} \/ Issued("dispatch")

\* What the verdict may depend on: the state of the channel end, its first hop,
\* and the chain id tracked by the client that hop leads to.
PathConsistent ==
    /\ channel_end_src.val.state = "Open"
    /\ Len(channel_end_src.val.connection_hops) >= 1
    /\ src_chain_client_state.some
    /\ src_chain_client_state.val.chain_id = cmd.dst_chain_id

\* C20: the verdict of the verification is a function of the channel end's
\* state, its first hop and the chain id tracked by the client behind it (and of
\* the request): it is the same whatever the connection end's own state, the
\* hops after the first and the client's latest height are, so any two runs
\* that agree on the former reach the same verdict. A connection end that is
\* not open does not block the dispatch.
C20_VerdictDependsOnPathOnly ==
    VerdictGiven => (VerdictPass <=> PathConsistent)

C20_Witness ==
    /\ VerdictGiven
    /\ Issued("dispatch")
    /\ conn_end.val.state = "Init"
    /\ channel_end_src.val.connection_hops = << "connection-0", "connection-1" >>
    /\ src_chain_client_state.val.latest_height = 2

====
